---- MODULE Spec2Model ----
(***************************************************************************)
(* Model of 0x02-redis_basic/web.py: Cache.count_and_cache.wrapper (the    *)
(* body that get_page runs), Cache.get_page (the fetch) and                *)
(* Cache.get_count, over one shared Redis store, called by several         *)
(* concurrent callers.  Every Redis command is one atomic step; the locals *)
(* of a call (url, page_content) live in per-caller variables.             *)
(*                                                                         *)
(* The model takes the wrapper body as what get_page(url) runs.  As written,*)
(* `@count_and_cache(ttl=10)` in the class body calls count_and_cache       *)
(* without `self` and raises TypeError when the class is defined; the      *)
(* model is of the wrapper applied to get_page with self bound.            *)
(*                                                                         *)
(* Redis is modelled by its command semantics: INCR creates a missing key  *)
(* at 1 without expiry and keeps the expiry of an existing key, SETEX      *)
(* overwrites with deadline now + ttl, a key is gone once the clock        *)
(* reaches its deadline.                                                   *)
(*                                                                         *)
(* Strings are sequences of one-character strings, Redis values are        *)
(* sequences of byte values (the UTF-8 encoding of the string), store keys *)
(* are TLA+ strings.  Time is in seconds.                                  *)
(***************************************************************************)
EXTENDS Integers, Sequences, FiniteSets, TLC

\* ------------------------------------------------------------- bounds
Callers == {"c1", "c2"}

\* "count:a" is both a URL in use and the counter key of "a"; "b" collides
\* with nothing.
URLs == {"a", "count:a", "b"}

\* get_page calls in a run, over all URLs
MaxCalls == 2

\* the clock advances by TickStep seconds, up to MaxTime
TickStep == 5
MaxTime == 15

\* ttl of @count_and_cache(ttl=10)
TTL == 10

\* the key has no expiry
NoExpiry == -1

\* ------------------------------------------------------------- strings
Digits == <<"0", "1", "2", "3", "4", "5", "6", "7", "8", "9">>

Chars == {Digits[i] : i \in 1..10} \cup {"N"}

\* code point of a character (all are ASCII: one UTF-8 byte each)
Ord(ch) ==
    CASE ch = "N" -> 78
      [] OTHER -> 47 + (CHOOSE i \in 1..10 : Digits[i] = ch)

Chr(b) == CHOOSE ch \in Chars : Ord(ch) = b

\* str -> bytes, as redis-py encodes a str value
Encode(str) == [i \in 1..Len(str) |-> Ord(str[i])]

\* bytes.decode('utf-8')
Decode(bytes) == [i \in 1..Len(bytes) |-> Chr(bytes[i])]

IsDigits(bytes) ==
    /\ Len(bytes) > 0
    /\ \A i \in 1..Len(bytes) : bytes[i] \in 48..57

RECURSIVE BytesToInt(_)
BytesToInt(bytes) ==
    IF Len(bytes) = 0 THEN 0
    ELSE 10 * BytesToInt(SubSeq(bytes, 1, Len(bytes) - 1))
         + (bytes[Len(bytes)] - 48)

RECURSIVE IntToBytes(_)
IntToBytes(n) ==
    IF n < 10 THEN <<48 + n>>
    ELSE Append(IntToBytes(n \div 10), 48 + (n % 10))

\* ------------------------------------------------------------- keys
\* cache_key = f"count:{url}"
CountKey(url) == "count:" \o url

\* the page of a URL is stored under the bare URL
ContentKey(url) == url

Keys == {ContentKey(u) : u \in URLs} \cup {CountKey(u) : u \in URLs}

\* ------------------------------------------------------------- the fetch
\* what requests.get(url) can answer: 2xx with a body (the empty body
\* included), or a non-2xx status with an error body
Responses ==
    { [status |-> 200, text |-> <<>>],
      [status |-> 200, text |-> <<"7">>],
      [status |-> 404, text |-> <<"N">>] }

\* ------------------------------------------------------------- state
VARIABLES
    store,    \* Redis: key -> entry
    now,      \* the clock, in seconds
    pc,       \* per caller: where its get_page call stands
    url,      \* per caller: the url argument
    status,   \* per caller: response.status_code of its fetch
    page,     \* per caller: page_content
    ops,      \* per caller: the store and fetch operations of its call so far
    result,   \* per caller: what its last call returned or raised
    calls,    \* per URL: get_page calls made
    incrs,    \* per URL: get_page calls whose INCR has executed
    written,  \* per key: <<t>> when the entry was written by SETEX at time t
    fetched   \* per URL: the pages the fetch has returned for it

vars == <<store, now, pc, url, status, page, ops, result, calls, incrs, written,
          fetched>>

Absent == [present |-> FALSE, val |-> <<>>, exp |-> NoExpiry]

Entry(val, exp) == [present |-> TRUE, val |-> val, exp |-> exp]

NoResult == [kind |-> "none", text |-> <<>>, num |-> 0, err |-> "none"]

Page(text) == [kind |-> "page", text |-> text, num |-> 0, err |-> "none"]

Count(n) == [kind |-> "count", text |-> <<>>, num |-> n, err |-> "none"]

Raise(err) == [kind |-> "error", text |-> <<>>, num |-> 0, err |-> err]

Init ==
    /\ store = [k \in Keys |-> Absent]
    /\ now = 0
    /\ pc = [c \in Callers |-> "idle"]
    /\ url = [c \in Callers |-> "a"]
    /\ status = [c \in Callers |-> 0]
    /\ page = [c \in Callers |-> <<>>]
    /\ ops = [c \in Callers |-> <<>>]
    /\ result = [c \in Callers |-> NoResult]
    /\ calls = [u \in URLs |-> 0]
    /\ incrs = [u \in URLs |-> 0]
    /\ written = [k \in Keys |-> <<>>]
    /\ fetched = [u \in URLs |-> {}]

\* ------------------------------------------------------------- the store
\* a key whose deadline has been reached is gone (Redis expires lazily)
Live(s, k, t) == s[k].present /\ (s[k].exp = NoExpiry \/ t < s[k].exp)

\* self._redis.get(key): the value, or None (here <<>> with found = FALSE)
Get(s, k, t) ==
    IF Live(s, k, t) THEN [found |-> TRUE, val |-> s[k].val]
    ELSE [found |-> FALSE, val |-> <<>>]

\* SET key 1 in place of INCR
IncrAsSet(s, k, t) ==
    [ok |-> TRUE, store |-> [s EXCEPT ![k] = Entry(IntToBytes(1), NoExpiry)]]

\* self._redis.incr(key): a missing key counts as 0 and is created without
\* expiry; an existing key keeps its expiry; a value that is not a decimal
\* integer is refused (redis.exceptions.ResponseError) and left as it is
Incr(s, k, t) ==
    IF ~Live(s, k, t)
    THEN [ok |-> TRUE, store |-> [s EXCEPT ![k] = Entry(IntToBytes(1), NoExpiry)]]
    ELSE IF IsDigits(s[k].val)
    THEN [ok |-> TRUE,
          store |-> [s EXCEPT ![k] = Entry(IntToBytes(BytesToInt(s[k].val) + 1),
                                           s[k].exp)]]
    ELSE [ok |-> FALSE, store |-> s]

\* SET without an expiry
SetNoExpiry(s, k, ttl, val, t) == [s EXCEPT ![k] = Entry(val, NoExpiry)]

\* self._redis.setex(key, ttl, value): overwrite, deadline ttl seconds from now
SetEx(s, k, ttl, val, t) == [s EXCEPT ![k] = Entry(val, t + ttl)]

\* `if cached_page:` / `if count`: None and b"" are both falsy
Truthy(got) == got.found /\ Len(got.val) > 0

\* get_count's two lines: int(count) if count else 0; int() of bytes that are
\* not a number raises ValueError
CountOf(s, u, t) ==
    LET count == Get(s, CountKey(u), t) IN
    IF Truthy(count)
    THEN IF IsDigits(count.val) THEN Count(BytesToInt(count.val))
         ELSE Raise("ValueError")
    ELSE Count(0)

RECURSIVE Sum(_, _)
Sum(f, S) ==
    IF S = {} THEN 0
    ELSE LET x == CHOOSE y \in S : TRUE IN f[x] + Sum(f, S \ {x})

\* ------------------------------------------------------------- get_page
\* a caller enters wrapper(url)
Call(c, u) ==
    /\ pc[c] = "idle"
    /\ Sum(calls, URLs) < MaxCalls
    /\ pc' = [pc EXCEPT ![c] = "incr"]
    /\ url' = [url EXCEPT ![c] = u]
    /\ status' = [status EXCEPT ![c] = 0]
    /\ page' = [page EXCEPT ![c] = <<>>]
    /\ ops' = [ops EXCEPT ![c] = <<>>]
    /\ result' = [result EXCEPT ![c] = NoResult]
    /\ calls' = [calls EXCEPT ![u] = @ + 1]
    /\ UNCHANGED <<store, now, incrs, written, fetched>>

\* the call ends: a return value or an exception reaches the caller
Finish(c, r) ==
    /\ pc' = [pc EXCEPT ![c] = "idle"]
    /\ result' = [result EXCEPT ![c] = r]
    /\ status' = [status EXCEPT ![c] = 0]
    /\ page' = [page EXCEPT ![c] = <<>>]

\* self._redis.incr(cache_key)
DoIncr(c) ==
    /\ pc[c] = "incr"
    /\ LET r == Incr(store, CountKey(url[c]), now) IN
       /\ store' = r.store
       /\ ops' = [ops EXCEPT ![c] = Append(@, "incr")]
       /\ IF r.ok
          THEN /\ pc' = [pc EXCEPT ![c] = "get"]
               /\ incrs' = [incrs EXCEPT ![url[c]] = @ + 1]
               /\ UNCHANGED <<result, status, page>>
          ELSE /\ Finish(c, Raise("ResponseError"))
               /\ UNCHANGED incrs
    /\ written' = IF Live(store, CountKey(url[c]), now) THEN written
                  ELSE [written EXCEPT ![CountKey(url[c])] = <<>>]
    /\ UNCHANGED <<now, url, calls, fetched>>

\* a hit renews the expiry of the entry (sliding TTL)
DoGetRefresh(c) ==
    /\ pc[c] = "get"
    /\ LET cached_page == Get(store, ContentKey(url[c]), now) IN
       IF Truthy(cached_page)
       THEN /\ Finish(c, Page(Decode(cached_page.val)))
            /\ store' = [store EXCEPT ![ContentKey(url[c])].exp = now + TTL]
       ELSE /\ pc' = [pc EXCEPT ![c] = "fetch"]
            /\ UNCHANGED <<store, result, status, page>>
    /\ ops' = [ops EXCEPT ![c] = Append(@, "get")]
    /\ UNCHANGED <<now, url, calls, incrs, written, fetched>>

\* cached_page = self._redis.get(url); if cached_page: return its decoding
DoGet(c) ==
    /\ pc[c] = "get"
    /\ LET cached_page == Get(store, ContentKey(url[c]), now) IN
       IF Truthy(cached_page)
       THEN Finish(c, Page(Decode(cached_page.val)))
       ELSE /\ pc' = [pc EXCEPT ![c] = "fetch"]
            /\ UNCHANGED <<result, status, page>>
    /\ ops' = [ops EXCEPT ![c] = Append(@, "get")]
    /\ UNCHANGED <<store, now, url, calls, incrs, written, fetched>>

\* a caller fetches only when no other caller is fetching or writing the URL
DoFetchSingleFlight(c) ==
    /\ pc[c] = "fetch"
    /\ \A d \in Callers \ {c} : ~(pc[d] = "setex" /\ url[d] = url[c])
    /\ \E response \in Responses :
         /\ status' = [status EXCEPT ![c] = response.status]
         /\ page' = [page EXCEPT ![c] = response.text]
         /\ fetched' = [fetched EXCEPT ![url[c]] = @ \cup {response.text}]
    /\ pc' = [pc EXCEPT ![c] = "setex"]
    /\ ops' = [ops EXCEPT ![c] = Append(@, "fetch")]
    /\ UNCHANGED <<store, now, url, result, calls, incrs, written>>

\* page_content = func(url): requests.get(url) answers, whatever the status,
\* and get_page returns response.text
DoFetch(c) ==
    /\ pc[c] = "fetch"
    /\ \E response \in Responses :
         /\ status' = [status EXCEPT ![c] = response.status]
         /\ page' = [page EXCEPT ![c] = response.text]
         /\ fetched' = [fetched EXCEPT ![url[c]] = @ \cup {response.text}]
    /\ pc' = [pc EXCEPT ![c] = "setex"]
    /\ ops' = [ops EXCEPT ![c] = Append(@, "fetch")]
    /\ UNCHANGED <<store, now, url, result, calls, incrs, written>>

\* the exception is caught and an empty page returned
FetchFailsSwallowed(c) ==
    /\ pc[c] = "fetch"
    /\ Finish(c, Page(<<>>))
    /\ ops' = [ops EXCEPT ![c] = Append(@, "fetch")]
    /\ UNCHANGED <<store, now, url, calls, incrs, written, fetched>>

\* requests.get(url) raises (no connection, timeout): nothing catches it
FetchFails(c) ==
    /\ pc[c] = "fetch"
    /\ Finish(c, Raise("FetchError"))
    /\ ops' = [ops EXCEPT ![c] = Append(@, "fetch")]
    /\ UNCHANGED <<store, now, url, calls, incrs, written, fetched>>

\* SET ... NX: an entry that is there is not overwritten
DoSetexNx(c) ==
    /\ pc[c] = "setex"
    /\ store' = IF Live(store, ContentKey(url[c]), now) THEN store
                ELSE SetEx(store, ContentKey(url[c]), TTL, Encode(page[c]), now)
    /\ Finish(c, Page(page[c]))
    /\ ops' = [ops EXCEPT ![c] = Append(@, "setex")]
    /\ written' = [written EXCEPT ![ContentKey(url[c])] = <<now>>]
    /\ UNCHANGED <<now, url, calls, incrs, fetched>>

\* self._redis.setex(url, ttl, page_content); return page_content
DoSetex(c) ==
    /\ pc[c] = "setex"
    /\ store' = SetEx(store, ContentKey(url[c]), TTL, Encode(page[c]), now)
    /\ Finish(c, Page(page[c]))
    /\ ops' = [ops EXCEPT ![c] = Append(@, "setex")]
    /\ written' = [written EXCEPT ![ContentKey(url[c])] = <<now>>]
    /\ UNCHANGED <<now, url, calls, incrs, fetched>>

\* the failed command is issued again
StoreFailsRetry(c) ==
    /\ pc[c] \in {"incr", "get", "setex"}
    /\ ops' = [ops EXCEPT ![c] = Append(@, pc[c])]
    /\ UNCHANGED <<store, now, pc, url, status, page, result, calls, incrs, written, fetched>>

\* a Redis command of get_page raises because the server cannot be reached
\* (redis.exceptions.ConnectionError / TimeoutError): nothing catches it
StoreFails(c) ==
    /\ pc[c] \in {"incr", "get", "setex"}
    /\ ops' = [ops EXCEPT ![c] = Append(@, pc[c])]
    /\ Finish(c, Raise("StoreUnavailable"))
    /\ UNCHANGED <<store, now, url, calls, incrs, written, fetched>>

\* ------------------------------------------------------------- get_count
\* the counter key is created at 0 when it is missing
GetCountCreates(c, u) ==
    /\ pc[c] = "idle"
    /\ url' = [url EXCEPT ![c] = u]
    /\ ops' = [ops EXCEPT ![c] = <<"get">>]
    /\ result' = [result EXCEPT ![c] = CountOf(store, u, now)]
    /\ store' = IF Live(store, CountKey(u), now) THEN store
                ELSE [store EXCEPT ![CountKey(u)] = Entry(IntToBytes(0), NoExpiry)]
    /\ UNCHANGED <<now, pc, status, page, calls, incrs, written, fetched>>

\* count = self._redis.get(f"count:{url}"); int(count) if count else 0
GetCount(c, u) ==
    /\ pc[c] = "idle"
    /\ url' = [url EXCEPT ![c] = u]
    /\ ops' = [ops EXCEPT ![c] = <<"get">>]
    /\ result' = [result EXCEPT ![c] = CountOf(store, u, now)]
    /\ UNCHANGED <<store, now, pc, status, page, calls, incrs, written, fetched>>

\* the GET of get_count raises because the server cannot be reached
GetCountFails(c, u) ==
    /\ pc[c] = "idle"
    /\ url' = [url EXCEPT ![c] = u]
    /\ ops' = [ops EXCEPT ![c] = <<"get">>]
    /\ result' = [result EXCEPT ![c] = Raise("StoreUnavailable")]
    /\ UNCHANGED <<store, now, pc, status, page, calls, incrs, written, fetched>>

\* ------------------------------------------------------------- time
Tick ==
    /\ now + TickStep <= MaxTime
    /\ now' = now + TickStep
    /\ UNCHANGED <<store, pc, url, status, page, ops, result, calls, incrs, written, fetched>>

\* ------------------------------------------------------------- specifications
\* the store answers every command
NextReliable ==
    \/ \E c \in Callers, u \in URLs : Call(c, u)
    \/ \E c \in Callers : DoIncr(c)
    \/ \E c \in Callers : DoGet(c)
    \/ \E c \in Callers : DoFetch(c)
    \/ \E c \in Callers : FetchFails(c)
    \/ \E c \in Callers : DoSetex(c)
    \/ \E c \in Callers, u \in URLs : GetCount(c, u)
    \/ Tick

SpecReliable == Init /\ [][NextReliable]_vars

\* the store may also fail any command
Next ==
    \/ NextReliable
    \/ \E c \in Callers : StoreFails(c)
    \/ \E c \in Callers, u \in URLs : GetCountFails(c, u)

Spec == Init /\ [][Next]_vars

\* ------------------------------------------------------------- claims
\* no get_page(u) call is in flight
Quiet(u) == \A c \in Callers : pc[c] = "idle" \/ url[c] # u

\* the content key of u is the counter key of no URL in use
ContentFree(u) == \A x \in URLs : ContentKey(u) # CountKey(x)

\* u shares no key with another URL in use, in either role
NoCollision(u) ==
    /\ ContentFree(u)
    /\ \A x \in URLs : ContentKey(x) # CountKey(u)

\* caller c takes the step of its get_page call that stands at `at`
Step(c, at) == pc[c] = at /\ pc'[c] # at

\* C1: a get_count(u) made when k get_page(u) calls have been made, and all
\* of them have ended, returns k (0 when there was none), whatever was done
\* on other URLs.
C1_CountEqualsCalls ==
    [][\A c \in Callers, u \in URLs :
         (GetCount(c, u) /\ Quiet(u)) => result'[c] = Count(calls[u])]_vars

\* C2: a cache lookup for u that finds an entry written by SETEX whose
\* deadline has not been reached ends the call with that entry's content and
\* without a fetch, whatever the content (the empty string included).
C2_FreshEntryIsHit ==
    [][\A c \in Callers :
         LET k == ContentKey(url[c]) IN
         (/\ Step(c, "get")
          /\ ContentFree(url[c])
          /\ written[k] # <<>>
          /\ now < written[k][1] + TTL)
         => /\ pc'[c] = "idle"
            /\ result'[c] = Page(Decode(store[k].val))]_vars

\* C3: every deadline in the store is at most TTL seconds after the time of
\* the write, and a cache lookup for u made TTL or more seconds after the
\* SETEX that wrote u's current entry is a miss: the call goes on to fetch.
C3_Deadline ==
    \A k \in Keys :
        (store[k].present /\ written[k] # <<>>) => store[k].exp = written[k][1] + TTL

C3_LookupStep ==
    \A c \in Callers :
        LET k == ContentKey(url[c]) IN
        (/\ Step(c, "get")
         /\ written[k] # <<>>
         /\ now >= written[k][1] + TTL)
        => /\ pc'[c] = "fetch"
           /\ result'[c] = result[c]

C3_ExpiredIsMiss == []C3_Deadline /\ [][C3_LookupStep]_vars

\* a caller has just missed on an entry whose deadline has passed
C3_Witness ==
    \E c \in Callers :
        /\ pc[c] = "fetch"
        /\ written[ContentKey(url[c])] # <<>>
        /\ store[ContentKey(url[c])].present
        /\ now >= store[ContentKey(url[c])].exp

\* C4: in a get_page(u) call the INCR step raises the counter of u by exactly 1
\* and touches no other key, the lookup step changes nothing in the store, and
\* a fetch that fails ends the call with the fetch error, after one INCR, one
\* GET and one fetch, leaving the whole store (cache entry and counter) as it
\* is: nothing is written and the increment is not rolled back.
C4_Steps ==
    \A c \in Callers :
        /\ (Step(c, "incr") /\ pc'[c] = "get")
           => /\ CountOf(store, url[c], now).kind = "count"
              /\ CountOf(store', url[c], now)
                   = Count(CountOf(store, url[c], now).num + 1)
              /\ \A k \in Keys \ {CountKey(url[c])} : store'[k] = store[k]
        /\ Step(c, "get") => store' = store
        /\ (Step(c, "fetch") /\ pc'[c] = "idle")
           => /\ store' = store
              /\ result'[c] = Raise("FetchError")
              /\ ops'[c] = <<"incr", "get", "fetch">>

C4_FetchFailureCounts == [][C4_Steps]_vars

\* a call has ended with the fetch error, its increment in the store and no
\* entry for its URL
C4_Witness ==
    \E c \in Callers :
        /\ pc[c] = "idle"
        /\ result[c] = Raise("FetchError")
        /\ ~store[ContentKey(url[c])].present
        /\ CountOf(store, url[c], now) = Count(1)

\* C5: counter keys and content keys are disjoint: no step of a get_page(u)
\* call changes what get_count(x) returns for another URL x.
C5_DisjointStorage ==
    [][\A c \in Callers, x \in URLs :
         (pc[c] # "idle" /\ pc'[c] # pc[c] /\ url[c] # x)
         => CountOf(store', x, now') = CountOf(store, x, now)]_vars

\* C6: what get_count(u) returns never decreases, whatever calls are made on
\* whatever URLs and however much time passes.
C6_CounterMonotone ==
    [][\A u \in URLs :
         (CountOf(store, u, now).kind = "count" /\ CountOf(store', u, now').kind = "count")
         => CountOf(store', u, now').num >= CountOf(store, u, now).num]_vars

\* C7: a non-2xx response is a fetch failure: a call goes on to the cache
\* write only with a 2xx response in hand.
C7_Non2xxIsFailure ==
    \A c \in Callers : pc[c] = "setex" => status[c] \in 200..299

\* C8: for a URL u that shares no key with another URL in use, the counter of
\* u equals the number of get_page(u) calls that have executed their INCR, and
\* when no get_page(u) call is in flight it equals the number of calls made.
C8_NoLostIncrement ==
    \A u \in URLs :
        NoCollision(u)
        => /\ CountOf(store, u, now) = Count(incrs[u])
           /\ Quiet(u) => incrs[u] = calls[u]

\* two get_page(u) calls are in flight together, both past their INCR, and
\* both increments are in the counter
C8_Witness ==
    \E u \in URLs :
        /\ NoCollision(u)
        /\ \A c \in Callers : pc[c] \in {"get", "fetch", "setex"} /\ url[c] = u
        /\ CountOf(store, u, now) = Count(2)

\* C9: there is no single-flight: a caller that has missed can fetch whatever
\* the other callers are doing, and every cache write replaces the entry by
\* the writer's content with deadline now + TTL, so the last write stands.
C9_NoGate == \A c \in Callers : pc[c] = "fetch" => ENABLED DoFetch(c)

C9_WriteStep ==
    \A c \in Callers :
        Step(c, "setex")
        => store'[ContentKey(url[c])] = Entry(Encode(page[c]), now + TTL)

C9_Stampede == []C9_NoGate /\ [][C9_WriteStep]_vars

\* both callers have missed on the same URL and fetched different pages, and
\* both are about to write
C9_Witness ==
    \E c \in Callers, d \in Callers :
        /\ c # d
        /\ pc[c] = "setex" /\ pc[d] = "setex"
        /\ url[c] = url[d]
        /\ page[c] # page[d]

\* C10: the operations of a call are attempted in order and at most once each,
\* and a call that ends with a store failure ended at the failing command:
\* after a failed INCR there is no GET, fetch or SETEX, after a failed GET no
\* fetch or SETEX; the failing command changes nothing in the store.
C10_Ops ==
    \A c \in Callers :
        /\ \/ \E n \in 0..4 : ops[c] = SubSeq(<<"incr", "get", "fetch", "setex">>, 1, n)
           \/ ops[c] = <<"get">>
        /\ result[c] = Raise("StoreUnavailable")
           => /\ pc[c] = "idle"
              /\ ops[c] \in { <<"incr">>, <<"incr", "get">>, <<"get">>,
                              <<"incr", "get", "fetch", "setex">> }

C10_FailStep ==
    \A c \in Callers :
        result'[c] = Raise("StoreUnavailable") /\ result[c] # result'[c]
        => store' = store

C10_StoreFailurePropagates == []C10_Ops /\ [][C10_FailStep]_vars

\* a call ended at a failed INCR, and another at a failed cache lookup
C10_Witness ==
    \E c \in Callers, d \in Callers :
        /\ result[c] = Raise("StoreUnavailable") /\ ops[c] = <<"incr">>
        /\ result[d] = Raise("StoreUnavailable") /\ ops[d] = <<"incr", "get">>

\* the get_page(u) calls in flight that stand at or past their cache lookup
PastIncr(u) == {c \in Callers : pc[c] \in {"get", "fetch", "setex"} /\ url[c] = u}

\* C11: a call that stands at or past its cache lookup has made exactly one
\* store operation before the lookup, its INCR, and that increment is in what
\* get_count(u) returns at that moment: the count is at least the number of
\* get_page(u) calls in flight that stand at or past their lookup.
C11_IncrementFirst ==
    \A c \in Callers :
        pc[c] \in {"get", "fetch", "setex"}
        => /\ ops[c] # <<>>
           /\ ops[c][1] = "incr"
           /\ \A i \in 2..Len(ops[c]) : ops[c][i] # "incr"
           /\ CountOf(store, url[c], now).kind = "count"
           /\ CountOf(store, url[c], now).num >= Cardinality(PastIncr(url[c]))

\* C12: a get_page(u) call that hits the cache ends at the lookup, after one
\* INCR and one GET and no fetch; its INCR changed the counter key of u and no
\* other key, and its lookup step changes no key of the store: the content
\* of u and its deadline stay as they were (the hit does not refresh the TTL).
C12_Steps ==
    \A c \in Callers :
        /\ Step(c, "incr")
           => \A k \in Keys \ {CountKey(url[c])} :
                  store'[k] = store[k] /\ written'[k] = written[k]
        /\ (Step(c, "get") /\ result'[c].kind = "page")
           => /\ pc'[c] = "idle"
              /\ ops'[c] = <<"incr", "get">>
              /\ store' = store
              /\ written' = written

C12_HitWritesNothing == [][C12_Steps]_vars

\* a call has ended in a hit, some time after the entry was written, and the
\* entry still has the deadline of its write
C12_Witness ==
    \E c \in Callers :
        LET k == ContentKey(url[c]) IN
        /\ pc[c] = "idle"
        /\ result[c].kind = "page"
        /\ ops[c] = <<"incr", "get">>
        /\ written[k] # <<>>
        /\ now > written[k][1]
        /\ store[k].exp = written[k][1] + TTL

\* C13: a get_page(u) call that misses and fetches makes one fetch and then
\* one SETEX, in that order after its INCR and GET; the SETEX step leaves the
\* entry of u holding exactly the fetched content with deadline = time of the
\* write + TTL, and the call returns the fetched content.
C13_Steps ==
    \A c \in Callers :
        /\ (Step(c, "fetch") /\ pc'[c] = "setex")
           => /\ ops'[c] = <<"incr", "get", "fetch">>
              /\ \E response \in Responses : page'[c] = response.text
              /\ store' = store
        /\ (Step(c, "setex") /\ result'[c].kind = "page")
           => /\ pc'[c] = "idle"
              /\ ops'[c] = <<"incr", "get", "fetch", "setex">>
              /\ result'[c] = Page(page[c])
              /\ store'[ContentKey(url[c])] = Entry(Encode(page[c]), now + TTL)
              /\ Decode(store'[ContentKey(url[c])].val) = page[c]
              /\ \A k \in Keys \ {ContentKey(url[c])} : store'[k] = store[k]

C13_MissFetchesAndStores == [][C13_Steps]_vars

\* some time into the run a call has ended after a fetch and a write, and the
\* entry holds what the call returned, with the deadline of this write
C13_Witness ==
    \E c \in Callers :
        LET k == ContentKey(url[c]) IN
        /\ pc[c] = "idle"
        /\ result[c].kind = "page"
        /\ result[c].text # <<>>
        /\ ops[c] = <<"incr", "get", "fetch", "setex">>
        /\ store[k] = Entry(Encode(result[c].text), now + TTL)
        /\ now > 0

\* caller c, idle before and after, has changed what it holds: the step is a
\* get_count call of c
CountStep(c) ==
    /\ pc[c] = "idle" /\ pc'[c] = "idle"
    /\ <<url[c], ops[c], result[c]>> # <<url'[c], ops'[c], result'[c]>>

\* C15: a get_count(u) call makes one GET and nothing else: it leaves every
\* key of the store as it is (value, deadline, presence: an absent counter key
\* stays absent) and makes no fetch.
C15_Step ==
    \A c \in Callers :
        CountStep(c)
        => /\ store' = store
           /\ written' = written
           /\ ops'[c] = <<"get">>
           /\ result'[c].kind \in {"count", "error"}

C15_GetCountIsPureRead == [][C15_Step]_vars

\* get_count has returned 0 for a URL whose counter key is still absent
C15_Witness ==
    \E c \in Callers :
        /\ pc[c] = "idle"
        /\ result[c] = Count(0)
        /\ ops[c] = <<"get">>
        /\ ~store[CountKey(url[c])].present

\* C14: every page a get_page(u) call has returned is a page the fetch
\* returned for that same URL u, in that call or an earlier one: never a
\* counter value, never the page of another URL.
C14_ReturnsFetchedPage ==
    \A c \in Callers :
        result[c].kind = "page" => result[c].text \in fetched[url[c]]

====
